---- MODULE Spec2Model ----
\* Request execution core: Request.execute(), the data-policy dispatcher,
\* notifySync and DeltaSetRequest.execute() of src/unnamed/part_000.
EXTENDS Integers, Sequences, FiniteSets, TLC

\* ------------------------------------------------------------------ bounds

\* How many times the caller calls execute() on the top request.
MaxCalls == 2

\* ------------------------------------------------------------------ enums

GET == "GET"
POST == "POST"
PUT == "PUT"
DELETE == "DELETE"
\* The methods the caller's requests are given: of the five the method setter
\* accepts, PATCH and PUT go through execute() as POST does (PUT is also the
\* method of the mirror of a GET).
Methods == {GET, POST, DELETE}

ForceLocal == "ForceLocal"
PreferLocal == "PreferLocal"
ForceNetwork == "ForceNetwork"
PreferNetwork == "PreferNetwork"
\* The policy notifySync gives its two requests, and the constructor default.
LocalOnly == "LocalOnly"
LocalFirst == "LocalFirst"
DataPolicy == {ForceLocal, PreferLocal, ForceNetwork, PreferNetwork, LocalOnly, LocalFirst}

\* ------------------------------------------------------------------ values

\* An entity: _id ("" is a falsy id) and lmt, <<>> when the entity has no _kmd
\* and <<n>> when _kmd.lmt = n.
Entity(id, lmt) == [_id |-> id, lmt |-> lmt]

NullData == [kind |-> "null"]
Arr(items) == [kind |-> "array", items |-> items]
Obj(item) == [kind |-> "object", item |-> item]
Envelope(name) == [kind |-> "envelope", name |-> name]

NullQuery == [filter |-> "null", fields |-> <<>>, ids |-> <<>>]
Q1 == [filter |-> "q1", fields |-> <<>>, ids |-> <<>>]

Response(statusCode, data) == [statusCode |-> statusCode, data |-> data]
\* A rack that resolves with nothing.
Undefined == [undefined |-> TRUE]
isSuccess(response) == response.statusCode >= 200 /\ response.statusCode < 300
Truthy(response) == response # Undefined

Pending == [state |-> "pending"]
Resolved(v) == [state |-> "resolved", value |-> v]
Rejected(e) == [state |-> "rejected", error |-> e]

KinveyError(message) == [name |-> "KinveyError", message |-> message]
NotFoundError(message) == [name |-> "NotFoundError", message |-> message]
BlobNotFoundError(message) == [name |-> "BlobNotFoundError", message |-> message]
TypeError == [name |-> "TypeError", message |-> "Cannot read property of null"]
TransportError == [name |-> "Error", message |-> "transport"]
AuthError == [name |-> "Error", message |-> "auth"]
AlreadyExecutingError == KinveyError("The request is already executing.")

\* ------------------------------------------------------------------ headers

LowerCase(header) ==
  CASE header = "Content-Type" -> "content-type"
    [] header = "Authorization" -> "authorization"
    [] header = "Accept" -> "accept"
    [] header = "X-Kinvey-Api-Version" -> "x-kinvey-api-version"
    [] header = "X-Kinvey-Device-Information" -> "x-kinvey-device-information"
    [] OTHER -> header

NoHeaders == [k \in {} |-> ""]

getHeader(headers, header) ==
  LET keys == {k \in DOMAIN headers : LowerCase(k) = LowerCase(header)}
  IN IF keys = {} THEN <<>> ELSE <<headers[CHOOSE k \in keys : TRUE]>>

setHeader(headers, header, value) ==
  [k \in DOMAIN headers \cup {header} |-> IF k = header THEN value ELSE headers[k]]

removeHeader(headers, header) ==
  [k \in DOMAIN headers \ {LowerCase(header)} |-> headers[k]]

\* The data setter: the headers after assigning data.
setData(headers, data) ==
  IF data # NullData
  THEN IF getHeader(headers, "Content-Type") = <<>>
       THEN setHeader(headers, "Content-Type", "application/json; charset=utf-8")
       ELSE headers
  ELSE removeHeader(headers, "Content-Type")

StandardHeaders(headers) ==
  setHeader(setHeader(setHeader(headers, "Accept", "application/json"),
                      "X-Kinvey-Api-Version", "3"),
            "X-Kinvey-Device-Information", "nodejs-sdk v1.9.0")

\* ------------------------------------------------------------------ Request

DefaultOptions ==
  [method |-> GET, pathname |-> "/", query |-> NullQuery, data |-> NullData,
   auth |-> "null", dataPolicy |-> LocalFirst, skipSync |-> FALSE]

\* new Request(options); parent and role record who created the instance.
Request(options, parent, role) ==
  LET o == options @@ DefaultOptions
  IN [cls |-> "Request",
      method |-> o.method,
      headers |-> StandardHeaders(setData(NoHeaders, o.data)),
      pathname |-> o.pathname,
      query |-> o.query,
      data |-> o.data,
      auth |-> o.auth,
      dataPolicy |-> o.dataPolicy,
      executing |-> FALSE,
      skipSync |-> o.skipSync,
      response |-> <<>>,
      \* position in the promise chain of execute(), and what it captured
      pc |-> "new",
      inbox |-> Pending,
      saved |-> <<>>,
      origQuery |-> <<>>,
      child |-> 0,
      batches |-> <<>>,
      authCalls |-> 0,
      \* what the dispatcher handed to the final validation
      dispatched |-> Pending,
      outcome |-> Pending,
      parent |-> parent,
      role |-> role,
      \* the options the instance was constructed with
      options |-> o]

toJSON(req) ==
  [method |-> req.method, headers |-> req.headers, pathname |-> req.pathname,
   query |-> req.query, data |-> req.data]


\* ------------------------------------------------------------------ paths

BooksPath == "/appdata/app1/books"
SyncBooksPath == "/appdata/app1/sync/books"

\* UrlPattern('/:namespace/:appId/:collection(/)(:id)(/)').match(pathname);
\* <<>> when the pathname does not match.
Match(pathname) ==
  IF pathname = BooksPath
  THEN <<[namespace |-> "appdata", appId |-> "app1", collection |-> "books"]>>
  ELSE <<>>

\* `/${namespace}/${appId}/${syncCollectionName}/${collection}`
SyncPathname(matches) ==
  IF matches.collection = "books" THEN SyncBooksPath ELSE "/"

\* ------------------------------------------------------------------ sync document

EmptySyncCollection(collection) ==
  [kind |-> "sync", _id |-> collection, documents |-> [i \in {} |-> <<>>], size |-> 0]

\* One step of the forEach of notifySync.
RecordItem(syncCollection, item, json) ==
  IF item._id # ""
  THEN [syncCollection EXCEPT
          !.size = IF item._id \in DOMAIN syncCollection.documents THEN @ ELSE @ + 1,
          !.documents = [i \in DOMAIN @ \cup {item._id} |->
                           IF i = item._id
                           THEN [request |-> json, lmt |-> item.lmt]
                           ELSE @[i]]]
  ELSE syncCollection

RECURSIVE RecordItems(_, _, _)
RecordItems(syncCollection, items, json) ==
  IF items = <<>> THEN syncCollection
  ELSE RecordItems(RecordItem(syncCollection, Head(items), json), Tail(items), json)

\* if (!isArray(data)) data = [data]
AsArray(data) ==
  IF data.kind = "array" THEN data.items
  ELSE IF data.kind = "object" THEN <<data.item>>
  ELSE <<data>>

\* ------------------------------------------------------------------ inputs

E1 == Entity("b1", <<>>)
E2 == Entity("b2", <<1>>)
NoIdItem == Entity("", <<>>)

TopData == {NullData, Obj(E1), Arr(<<E1, E2>>)}
TopQueries == {Q1}
TopPolicies == {ForceLocal, PreferLocal, ForceNetwork, PreferNetwork, LocalOnly}
AuthKinds == {"null", "closure"}
\* The collection as the backend holds it when a single request is followed.
ServerBooks == Arr(<<E1, E2>>)

Absent == [kind |-> "absent"]
ConsistentSyncDoc ==
  RecordItem(EmptySyncCollection("books"), E1,
             toJSON(Request([method |-> POST, pathname |-> BooksPath, data |-> Obj(E1)], 0, "top")))

\* ------------------------------------------------------------------ racks

\* StatusCode.OK, StatusCode.Ok and StatusCode.NotFound
StatusCodeOK == 200
StatusCodeOk == 200
StatusCodeNotFound == 404

Range(seq) == {seq[i] : i \in DOMAIN seq}

\* What a stored body gives under a query: a filter on _id keeps the entities
\* of the ids asked for.
Filter(body, query) ==
  IF query.ids # <<>> /\ body.kind = "array"
  THEN Arr(SelectSeq(body.items, LAMBDA item : item._id \in Range(query.ids[1])))
  ELSE body

\* What the network rack may answer: the backend's answer (a read gives the
\* collection under the query, a write gives the entity as the backend stored
\* it, a delete gives a count), an error response, nothing, or a rejection.
NetworkRack(json, server) ==
  {Resolved(Response(StatusCodeOK,
                     CASE json.method = GET -> Filter(server, json.query)
                       [] json.method = DELETE -> Obj(NoIdItem)
                       [] OTHER -> Obj(E2))),
   Resolved(Response(StatusCodeNotFound, Envelope("EntityNotFound"))),
   Resolved(Response(StatusCodeNotFound, Envelope("BlobNotFound"))),
   Resolved(Response(500, NullData)),
   Resolved(Undefined),
   Rejected(TransportError)}

\* The cache rack over the local store `store`: the pairs <<outcome, store'>>.
\* It serves the store (GET reads the path or rejects with NotFound, a write
\* replaces what is stored at the path), or it fails.
CacheRack(json, store) ==
  LET path == json.pathname
      served ==
        CASE json.method = GET ->
               IF store[path] = Absent
               THEN <<Rejected(NotFoundError("not found")), store>>
               ELSE <<Resolved(Response(StatusCodeOK, Filter(store[path], json.query))), store>>
          [] json.method = DELETE ->
               IF store[path] = Absent
               THEN <<Rejected(NotFoundError("not found")), store>>
               ELSE <<Resolved(Response(StatusCodeOK, Obj(NoIdItem))),
                      [store EXCEPT ![path] = Absent]>>
          [] json.method = POST ->
               <<Resolved(Response(201, json.data)), [store EXCEPT ![path] = json.data]>>
          [] OTHER ->
               <<Resolved(Response(StatusCodeOK, json.data)), [store EXCEPT ![path] = json.data]>>
  IN {served,
      <<Resolved(Response(500, Envelope("KinveyError"))), store>>,
      <<Resolved(Undefined), store>>,
      <<Rejected(TransportError), store>>}

\* ------------------------------------------------------------------ state

VARIABLES
  reqs,         \* every Request instance created so far; reqs[1] is the caller's
  calls,        \* the rack calls made so far: [rack, req, json]
  cache,        \* the local store behind the cache rack: pathname -> body
  callerCalls,  \* how many times the caller has called execute() on reqs[1]
  reentry,      \* what a call of execute() on an executing instance returned
  backend       \* the collection as the backend holds it

vars == <<reqs, calls, cache, callerCalls, reentry, backend>>


\* ------------------------------------------------------------------ execute()

\* The guard left out: a call on an executing instance starts over.
AlreadyExecuting_Never(req) == FALSE

\* if (this.executing) return Promise.reject(...)
AlreadyExecuting(req) == req.executing

\* Request.execute() up to its first suspension: the flag is set and the chain
\* waits for the credentials.
RequestExecute(req) ==
  [req EXCEPT !.executing = TRUE, !.pc = "auth", !.inbox = Pending]

\* DeltaSetRequest.execute() up to its first suspension.
DeltaSetExecute(req) ==
  IF req.dataPolicy = PreferNetwork /\ req.method = GET
  THEN [req EXCEPT !.executing = TRUE, !.pc = "dAuth", !.inbox = Pending]
  ELSE RequestExecute(req)

execute(req) ==
  IF req.cls = "DeltaSetRequest" THEN DeltaSetExecute(req) ELSE RequestExecute(req)

\* The name of the envelope ignored: every error response becomes a KinveyError.
ErrorOf_Untyped(data) ==
  KinveyError(IF data.kind = "envelope" THEN "envelope message"
              ELSE IF data.kind = "null" THEN "An error has occurred."
              ELSE "undefined")

\* The typed error of a non-successful response.
ErrorOf(data) ==
  LET message == IF data.kind = "envelope" THEN "envelope message"
                 ELSE IF data.kind = "null" THEN "An error has occurred."
                 ELSE "undefined"
      name == IF data.kind = "envelope" THEN data.name ELSE "undefined"
  IN IF name = "BlobNotFound" THEN BlobNotFoundError(message)
     ELSE IF name = "EntityNotFound" THEN NotFoundError(message)
     ELSE KinveyError(message)

\* The last .then of execute(): the dispatcher's outcome validated.
FinalValidation(o) ==
  IF o.state = "rejected" THEN o
  ELSE IF ~Truthy(o.value) THEN Rejected(KinveyError("No response"))
  ELSE IF ~isSuccess(o.value) THEN Rejected(ErrorOf(o.value.data))
  ELSE o

\* The flag reset in a .then in place of the .finally: a rejection skips it.
Settle_ThenOnly(req, o) ==
  LET f == FinalValidation(o)
  IN [req EXCEPT !.response = IF f.state = "resolved" THEN <<f.value>> ELSE <<>>,
                 !.executing = IF f.state = "resolved" THEN FALSE ELSE @,
                 !.pc = "done",
                 !.dispatched = o,
                 !.outcome = f]

\* The tail of execute(): validation, .catch (this.response = null) and
\* .finally (this.executing = false), for the dispatcher's outcome o.
Settle(req, o) ==
  LET f == FinalValidation(o)
  IN [req EXCEPT !.response = IF f.state = "resolved" THEN <<f.value>> ELSE <<>>,
                 !.executing = FALSE,
                 !.pc = "done",
                 !.dispatched = o,
                 !.outcome = f]

\* ------------------------------------------------------------------ steps

Awaiting(r, pc) == r \in DOMAIN reqs /\ reqs[r].pc = pc

\* this.executeLocal(): the cache rack is called with this.toJSON().
executeLocal(r, req, pc) ==
  /\ calls' = Append(calls, [rack |-> "cache", req |-> r, json |-> toJSON(req)])
  /\ reqs' = [reqs EXCEPT ![r] = [req EXCEPT !.pc = pc, !.inbox = Pending]]

\* this.executeNetwork(): the network rack is called with this.toJSON().
executeNetwork(r, req, pc) ==
  /\ calls' = Append(calls, [rack |-> "network", req |-> r, json |-> toJSON(req)])
  /\ reqs' = [reqs EXCEPT ![r] = [req EXCEPT !.pc = pc, !.inbox = Pending]]

\* request = new Request(options); return request.execute()...
SubRequest(r, req, pc, options, role) ==
  /\ reqs' = Append([reqs EXCEPT ![r] = [req EXCEPT !.pc = pc, !.child = Len(reqs) + 1]],
                    execute(Request(options, r, role)))
  /\ UNCHANGED calls

\* The dispatcher's promise settles with o.
Return(r, req, o) ==
  /\ reqs' = [reqs EXCEPT ![r] = Settle(req, o)]
  /\ UNCHANGED calls

\* The caller calls execute() on its request.
CallExecute ==
  /\ callerCalls < MaxCalls
  /\ reqs[1].pc # "done"
  /\ callerCalls' = callerCalls + 1
  /\ IF AlreadyExecuting(reqs[1])
     THEN /\ reentry' = Rejected(AlreadyExecutingError)
          /\ UNCHANGED <<reqs, calls, cache, backend>>
     ELSE /\ reqs' = [reqs EXCEPT ![1] = execute(@)]
          /\ UNCHANGED <<reentry, calls, cache, backend>>

\* return isFunction(auth) ? auth(this.client) : auth
\* A closure is invoked and settles either way; a value is passed on.
InvokeAuth(r) ==
  /\ Awaiting(r, "auth") \/ Awaiting(r, "dAuth")
  /\ reqs[r].inbox = Pending
  /\ \E o \in IF reqs[r].auth = "closure"
              THEN {Resolved("authInfo"), Rejected(AuthError)}
              ELSE {Resolved(reqs[r].auth)} :
       reqs' = [reqs EXCEPT ![r].inbox = o,
                            ![r].authCalls = IF reqs[r].auth = "closure" THEN @ + 1 ELSE @]
  /\ UNCHANGED <<calls, cache, callerCalls, reentry, backend>>

\* this.setHeader('Authorization', ...) when there is an authInfo.
Authorize(req) ==
  IF req.inbox.value # "null"
  THEN [req EXCEPT !.headers = setHeader(@, "Authorization", "Basic credentials")]
  ELSE req

\* The policy branches of execute(), run once the credentials are there.
Dispatch(r) ==
  /\ Awaiting(r, "auth")
  /\ reqs[r].inbox # Pending
  /\ IF reqs[r].inbox.state = "rejected"
     THEN Return(r, reqs[r], reqs[r].inbox)
     ELSE LET req == Authorize(reqs[r])
              sub == [method |-> req.method, pathname |-> req.pathname,
                      query |-> req.query, auth |-> req.auth, data |-> req.data,
                      dataPolicy |-> PreferNetwork]
          IN CASE req.dataPolicy = ForceLocal -> executeLocal(r, req, "local")
               [] req.dataPolicy = PreferLocal /\ req.method # GET ->
                    SubRequest(r, req, "sub", sub, "network")
               [] req.dataPolicy = PreferLocal /\ req.method = GET ->
                    executeLocal(r, req, "local")
               [] req.dataPolicy = ForceNetwork -> executeNetwork(r, req, "network")
               [] req.dataPolicy = PreferNetwork -> executeNetwork(r, req, "network")
               [] OTHER -> Return(r, req, Resolved(Undefined))
  /\ UNCHANGED <<cache, callerCalls, reentry, backend>>

\* The last call request r made to a rack.
LastCall(r) ==
  calls[CHOOSE i \in DOMAIN calls :
          calls[i].req = r /\ \A j \in DOMAIN calls : j > i => calls[j].req # r]

\* The cache rack settles the call of request r.
CacheRackSettle(r) ==
  /\ Awaiting(r, "local") \/ Awaiting(r, "dLocal")
  /\ reqs[r].inbox = Pending
  /\ \E answer \in CacheRack(LastCall(r).json, cache) :
       /\ reqs' = [reqs EXCEPT ![r].inbox = answer[1]]
       /\ cache' = answer[2]
  /\ UNCHANGED <<calls, callerCalls, reentry, backend>>

\* The network rack settles the call of request r.
NetworkRackSettle(r) ==
  /\ Awaiting(r, "network") \/ Awaiting(r, "dNetwork")
  /\ reqs[r].inbox = Pending
  /\ \E o \in NetworkRack(LastCall(r).json, backend) : reqs' = [reqs EXCEPT ![r].inbox = o]
  /\ UNCHANGED <<calls, cache, callerCalls, reentry, backend>>


\* ------------------------------------------------------------------ ForceLocal

\* The method test left out: a successful local read is recorded too.
NotifyCondition_AnyMethod(req, response) ==
  ~req.skipSync /\ Truthy(response) /\ isSuccess(response)

\* !this.skipSync && this.method !== GET && response && response.isSuccess()
NotifyCondition(req, response) ==
  ~req.skipSync /\ req.method # GET /\ Truthy(response) /\ isSuccess(response)

\* The head of notifySync(data): the pathname is matched and the sync
\* document is read with a LocalOnly GET.
notifySync(r, req) ==
  LET matches == Match(req.pathname)
  IN IF matches = <<>>
     THEN Return(r, req, Rejected(TypeError))
     ELSE SubRequest(r, req, "nsRead",
                     [method |-> GET, pathname |-> SyncPathname(matches[1]),
                      auth |-> req.auth, dataPolicy |-> LocalOnly],
                     "getRequest")

\* ForceLocal: the .then after executeLocal().
ForceLocalThen(r) ==
  /\ Awaiting(r, "local")
  /\ reqs[r].dataPolicy = ForceLocal
  /\ reqs[r].inbox # Pending
  /\ LET req == reqs[r]
         o == req.inbox
     IN IF o.state = "rejected" THEN Return(r, req, o)
        ELSE IF NotifyCondition(req, o.value)
        THEN notifySync(r, [req EXCEPT !.saved = <<o.value>>])
        ELSE Return(r, req, o)
  /\ UNCHANGED <<cache, callerCalls, reentry, backend>>

ChildDone(r) == reqs[r].child \in DOMAIN reqs /\ reqs[reqs[r].child].pc = "done"
ChildOutcome(r) == reqs[reqs[r].child].outcome

\* notifySync after the read: the document is taken (or synthesized), every
\* item with a truthy _id is recorded, and the document is written back.
notifySyncRead(r) ==
  /\ Awaiting(r, "nsRead")
  /\ ChildDone(r)
  /\ LET req == reqs[r]
         response == IF ChildOutcome(r).state = "rejected"
                     THEN Response(StatusCodeOK, EmptySyncCollection(Match(req.pathname)[1].collection))
                     ELSE ChildOutcome(r).value
         syncCollection == IF response.data = NullData
                           THEN EmptySyncCollection(Match(req.pathname)[1].collection)
                           ELSE response.data
         data == req.saved[1].data
     IN IF data = NullData
        THEN Return(r, req, Rejected(TypeError))
        ELSE SubRequest(r, req, "nsWrite",
                        [method |-> PUT,
                         pathname |-> SyncPathname(Match(req.pathname)[1]),
                         auth |-> req.auth,
                         data |-> RecordItems(syncCollection, AsArray(data), toJSON(req)),
                         dataPolicy |-> LocalOnly,
                         skipSync |-> TRUE],
                        "updateRequest")
  /\ UNCHANGED <<cache, callerCalls, reentry, backend>>

\* notifySync after the write: it resolves with null and the ForceLocal
\* branch returns the local response; a failed write rejects.
notifySyncWrite(r) ==
  /\ Awaiting(r, "nsWrite")
  /\ ChildDone(r)
  /\ IF ChildOutcome(r).state = "resolved"
     THEN Return(r, reqs[r], Resolved(reqs[r].saved[1]))
     ELSE Return(r, reqs[r], ChildOutcome(r))
  /\ UNCHANGED <<cache, callerCalls, reentry, backend>>

\* ------------------------------------------------------------------ PreferLocal

\* The fallback given the policy of the request itself in place of
\* ForceLocal: a failed fallback falls back again.
PreferLocalCatch_SamePolicy(r) ==
  /\ Awaiting(r, "sub")
  /\ ChildDone(r)
  /\ LET req == reqs[r]
     IN IF ChildOutcome(r).state = "resolved"
        THEN Return(r, req, ChildOutcome(r))
        ELSE SubRequest(r, [req EXCEPT !.saved = <<ChildOutcome(r).error>>], "fallback",
                        [method |-> req.method, pathname |-> req.pathname,
                         query |-> req.query, auth |-> req.auth, data |-> req.data,
                         dataPolicy |-> req.dataPolicy],
                        "request2")
  /\ UNCHANGED <<cache, callerCalls, reentry, backend>>

\* PreferLocal, not GET: the .catch of the PreferNetwork sub-request.
PreferLocalCatch(r) ==
  /\ Awaiting(r, "sub")
  /\ ChildDone(r)
  /\ LET req == reqs[r]
     IN IF ChildOutcome(r).state = "resolved"
        THEN Return(r, req, ChildOutcome(r))
        ELSE SubRequest(r, [req EXCEPT !.saved = <<ChildOutcome(r).error>>], "fallback",
                        [method |-> req.method, pathname |-> req.pathname,
                         query |-> req.query, auth |-> req.auth, data |-> req.data,
                         dataPolicy |-> ForceLocal],
                        "request2")
  /\ UNCHANGED <<cache, callerCalls, reentry, backend>>

\* request2.execute().then(() => { throw err; })
PreferLocalRethrow(r) ==
  /\ Awaiting(r, "fallback")
  /\ ChildDone(r)
  /\ IF ChildOutcome(r).state = "resolved"
     THEN Return(r, reqs[r], Rejected(reqs[r].saved[1]))
     ELSE Return(r, reqs[r], ChildOutcome(r))
  /\ UNCHANGED <<cache, callerCalls, reentry, backend>>

\* The .catch left out: a NotFound of the cache rack propagates.
PreferLocalThen_NoCatch(r) ==
  /\ Awaiting(r, "local")
  /\ reqs[r].dataPolicy = PreferLocal
  /\ reqs[r].inbox # Pending
  /\ LET req == reqs[r]
         o == req.inbox
     IN IF o.state = "rejected" THEN Return(r, req, o)
        ELSE IF Truthy(o.value) /\ ~isSuccess(o.value)
        THEN SubRequest(r, req, "escalate",
                        [method |-> req.method, pathname |-> req.pathname,
                         query |-> req.query, auth |-> req.auth, data |-> o.value.data,
                         dataPolicy |-> PreferNetwork],
                        "escalation")
        ELSE Return(r, req, o)
  /\ UNCHANGED <<cache, callerCalls, reentry, backend>>

\* PreferLocal GET: the .catch and .then after executeLocal().
PreferLocalThen(r) ==
  /\ Awaiting(r, "local")
  /\ reqs[r].dataPolicy = PreferLocal
  /\ reqs[r].inbox # Pending
  /\ LET req == reqs[r]
         o == IF req.inbox.state = "rejected" /\ req.inbox.error.name = "NotFoundError"
              THEN Resolved(Response(StatusCodeNotFound, Arr(<<>>)))
              ELSE req.inbox
     IN IF o.state = "rejected" THEN Return(r, req, o)
        ELSE IF Truthy(o.value) /\ ~isSuccess(o.value)
        THEN SubRequest(r, req, "escalate",
                        [method |-> req.method, pathname |-> req.pathname,
                         query |-> req.query, auth |-> req.auth, data |-> o.value.data,
                         dataPolicy |-> PreferNetwork],
                        "escalation")
        ELSE Return(r, req, o)
  /\ UNCHANGED <<cache, callerCalls, reentry, backend>>

\* return request.execute(): the escalation's result is the result.
PreferLocalEscalated(r) ==
  /\ Awaiting(r, "escalate")
  /\ ChildDone(r)
  /\ Return(r, reqs[r], ChildOutcome(r))
  /\ UNCHANGED <<cache, callerCalls, reentry, backend>>

\* ------------------------------------------------------------------ ForceNetwork, PreferNetwork

ForceNetworkThen(r) ==
  /\ Awaiting(r, "network")
  /\ reqs[r].dataPolicy = ForceNetwork
  /\ reqs[r].inbox # Pending
  /\ Return(r, reqs[r], reqs[r].inbox)
  /\ UNCHANGED <<cache, callerCalls, reentry, backend>>

\* The mirror started but not returned: the response is passed on at once.
PreferNetworkThen_NoAwait(r) ==
  /\ Awaiting(r, "network")
  /\ reqs[r].dataPolicy = PreferNetwork
  /\ reqs[r].inbox # Pending
  /\ LET req == reqs[r]
         o == req.inbox
     IN IF o.state = "resolved" /\ Truthy(o.value) /\ isSuccess(o.value)
        THEN /\ reqs' = Append([reqs EXCEPT ![r] = Settle([req EXCEPT !.saved = <<o.value>>,
                                                                      !.child = Len(reqs) + 1], o)],
                               execute(Request([method |-> IF req.method = GET THEN PUT ELSE req.method,
                                                pathname |-> req.pathname, query |-> req.query,
                                                auth |-> req.auth, data |-> o.value.data,
                                                dataPolicy |-> ForceLocal], r, "mirror")))
             /\ UNCHANGED calls
        ELSE Return(r, req, IF o.state = "resolved" /\ ~Truthy(o.value) /\ req.method = GET
                            THEN Rejected(TypeError) ELSE o)
  /\ UNCHANGED <<cache, callerCalls, reentry, backend>>

\* PreferNetwork: the .then after executeNetwork().
PreferNetworkThen(r) ==
  /\ Awaiting(r, "network")
  /\ reqs[r].dataPolicy = PreferNetwork
  /\ reqs[r].inbox # Pending
  /\ LET req == reqs[r]
         o == req.inbox
     IN IF o.state = "rejected" THEN Return(r, req, o)
        ELSE IF Truthy(o.value) /\ isSuccess(o.value)
        THEN SubRequest(r, [req EXCEPT !.saved = <<o.value>>], "mirror",
                        [method |-> IF req.method = GET THEN PUT ELSE req.method,
                         pathname |-> req.pathname, query |-> req.query,
                         auth |-> req.auth, data |-> o.value.data,
                         dataPolicy |-> ForceLocal],
                        "mirror")
        ELSE IF req.method = GET
        THEN IF ~Truthy(o.value)
             THEN Return(r, req, Rejected(TypeError))
             ELSE SubRequest(r, req, "cacheFallback",
                             [method |-> req.method, pathname |-> req.pathname,
                              query |-> req.query, auth |-> req.auth,
                              data |-> o.value.data, dataPolicy |-> ForceLocal],
                             "cacheFallback")
        ELSE Return(r, req, o)
  /\ UNCHANGED <<cache, callerCalls, reentry, backend>>

\* return request.execute().then(() => response)
MirrorThen(r) ==
  /\ Awaiting(r, "mirror")
  /\ ChildDone(r)
  /\ IF ChildOutcome(r).state = "resolved"
     THEN Return(r, reqs[r], Resolved(reqs[r].saved[1]))
     ELSE Return(r, reqs[r], ChildOutcome(r))
  /\ UNCHANGED <<cache, callerCalls, reentry, backend>>

\* return request.execute(): the cache's answer is the result.
PreferNetworkFallback(r) ==
  /\ Awaiting(r, "cacheFallback")
  /\ ChildDone(r)
  /\ Return(r, reqs[r], ChildOutcome(r))
  /\ UNCHANGED <<cache, callerCalls, reentry, backend>>

\* ------------------------------------------------------------------ the caller

\* The caller's request has been executed and has not settled.
InFlightTop == reqs[1].pc \notin {"new", "done"}

\* Once its request has settled the caller reads the same pathname and query
\* from the cache with a ForceLocal GET.
FollowUp ==
  /\ reqs[1].pc = "done"
  /\ reqs[1].method = GET
  /\ \A i \in DOMAIN reqs : reqs[i].pc = "done" /\ reqs[i].role # "followUp"
  /\ reqs' = Append(reqs, execute(Request([method |-> GET, pathname |-> reqs[1].pathname,
                                           query |-> reqs[1].query, auth |-> reqs[1].auth,
                                           dataPolicy |-> ForceLocal], 0, "followUp")))
  /\ UNCHANGED <<calls, cache, callerCalls, reentry, backend>>

\* ------------------------------------------------------------------ specification

TopRequest(cls, method, dataPolicy, skipSync, auth, data, query) ==
  [Request([method |-> method, pathname |-> BooksPath, query |-> query, data |-> data,
            auth |-> auth, dataPolicy |-> dataPolicy, skipSync |-> skipSync], 0, "top")
     EXCEPT !.cls = cls]

InitStore ==
  /\ cache \in [{BooksPath, SyncBooksPath} -> {Absent, Arr(<<E1>>), ConsistentSyncDoc}]
  /\ cache[BooksPath] \in {Absent, Arr(<<E1>>)}
  /\ cache[SyncBooksPath] \in {Absent, ConsistentSyncDoc}

Init ==
  /\ \E method \in Methods, dataPolicy \in TopPolicies, skipSync \in BOOLEAN,
        auth \in AuthKinds, data \in TopData, query \in TopQueries :
       reqs = <<TopRequest("Request", method, dataPolicy, skipSync, auth, data, query)>>
  /\ calls = <<>>
  /\ InitStore
  /\ callerCalls = 0
  /\ reentry = Pending
  /\ backend = ServerBooks

Next ==
  \/ CallExecute
  \/ FollowUp
  \/ \E r \in DOMAIN reqs : InvokeAuth(r)
  \/ \E r \in DOMAIN reqs : Dispatch(r)
  \/ \E r \in DOMAIN reqs : CacheRackSettle(r)
  \/ \E r \in DOMAIN reqs : NetworkRackSettle(r)
  \/ \E r \in DOMAIN reqs : ForceLocalThen(r)
  \/ \E r \in DOMAIN reqs : notifySyncRead(r)
  \/ \E r \in DOMAIN reqs : notifySyncWrite(r)
  \/ \E r \in DOMAIN reqs : PreferLocalCatch(r)
  \/ \E r \in DOMAIN reqs : PreferLocalRethrow(r)
  \/ \E r \in DOMAIN reqs : PreferLocalThen(r)
  \/ \E r \in DOMAIN reqs : PreferLocalEscalated(r)
  \/ \E r \in DOMAIN reqs : ForceNetworkThen(r)
  \/ \E r \in DOMAIN reqs : PreferNetworkThen(r)
  \/ \E r \in DOMAIN reqs : MirrorThen(r)
  \/ \E r \in DOMAIN reqs : PreferNetworkFallback(r)

Spec == Init /\ [][Next]_vars

\* The steps that are not the caller's: the auth closures and the racks
\* settling, and the continuations of the promise chains.
Handlers ==
  \/ \E r \in DOMAIN reqs : InvokeAuth(r)
  \/ \E r \in DOMAIN reqs : Dispatch(r)
  \/ \E r \in DOMAIN reqs : CacheRackSettle(r)
  \/ \E r \in DOMAIN reqs : NetworkRackSettle(r)
  \/ \E r \in DOMAIN reqs : ForceLocalThen(r)
  \/ \E r \in DOMAIN reqs : notifySyncRead(r)
  \/ \E r \in DOMAIN reqs : notifySyncWrite(r)
  \/ \E r \in DOMAIN reqs : PreferLocalCatch(r)
  \/ \E r \in DOMAIN reqs : PreferLocalRethrow(r)
  \/ \E r \in DOMAIN reqs : PreferLocalThen(r)
  \/ \E r \in DOMAIN reqs : PreferLocalEscalated(r)
  \/ \E r \in DOMAIN reqs : ForceNetworkThen(r)
  \/ \E r \in DOMAIN reqs : PreferNetworkThen(r)
  \/ \E r \in DOMAIN reqs : MirrorThen(r)
  \/ \E r \in DOMAIN reqs : PreferNetworkFallback(r)

\* Every auth closure and every rack call settles, and the job queue runs
\* every continuation that is ready.
NextLive == CallExecute \/ Handlers

SpecLive == Init /\ [][NextLive]_vars /\ WF_vars(Handlers)


\* ------------------------------------------------------------------ DeltaSetRequest

\* process.env.KINVEY_MAX_IDS || 200, scaled down.
maxIdsPerRequest == 2

\* query.fields(['_id', '_kmd']) on a new Query
ProjectionQuery == [filter |-> "none", fields |-> <<"_id", "_kmd">>, ids |-> <<>>]

\* array.slice(start, end), 0-based, end exclusive.
Slice(seq, start, end) == SubSeq(seq, start + 1, IF end > Len(seq) THEN Len(seq) ELSE end)

\* The _id lists of the batches the while loops build from ids.
RECURSIVE BatchesFrom(_, _)
BatchesFrom(ids, i) ==
  IF i < Len(ids)
  THEN <<Slice(ids, i, IF Len(ids) > maxIdsPerRequest + i THEN maxIdsPerRequest ELSE Len(ids))>>
       \o BatchesFrom(ids, i + maxIdsPerRequest)
  ELSE <<>>

\* Object.keys(indexBy(items, '_id')): the ids in order of first appearance.
RECURSIVE Keys(_)
Keys(items) ==
  IF items = <<>> THEN <<>>
  ELSE LET rest == Keys(SubSeq(items, 1, Len(items) - 1))
           id == items[Len(items)]._id
       IN IF id \in Range(rest) THEN rest ELSE Append(rest, id)

\* indexBy(items, '_id')[id]: the last item of that id.
Indexed(items, id) ==
  items[CHOOSE i \in DOMAIN items :
          items[i]._id = id /\ \A j \in DOMAIN items : j > i => items[j]._id # id]

\* Whether the loop over networkDocuments keeps id (the id stays in the delta set).
Kept(localItems, networkItems, id) ==
  LET networkDocument == Indexed(networkItems, id)
  IN IF id \notin Range(Keys(localItems)) THEN TRUE
     ELSE LET localDocument == Indexed(localItems, id)
          IN /\ networkDocument.lmt # <<>>
             /\ localDocument.lmt # <<>>
             /\ networkDocument.lmt[1] > localDocument.lmt[1]

networkIds(localItems, networkItems) ==
  SelectSeq(Keys(networkItems), LAMBDA id : Kept(localItems, networkItems, id))

\* new Query(origQuery).contains('_id', ids)
BatchQuery(origQuery, ids) == [origQuery EXCEPT !.ids = <<ids>>]

\* A rejection of the delta-set chain: nothing resets executing or the query.
Reject(r, req, o) ==
  /\ reqs' = [reqs EXCEPT ![r] = [req EXCEPT !.pc = "done", !.outcome = o]]
  /\ UNCHANGED calls

\* this.executing = false; return super.execute()
SuperExecute(r, req) ==
  /\ reqs' = [reqs EXCEPT ![r] = RequestExecute([req EXCEPT !.executing = FALSE])]
  /\ UNCHANGED calls

\* Delta set, after the credentials: the query is replaced by the projection
\* and the cache is read.
DeltaAuthThen(r) ==
  /\ Awaiting(r, "dAuth")
  /\ reqs[r].inbox # Pending
  /\ IF reqs[r].inbox.state = "rejected"
     THEN Reject(r, reqs[r], reqs[r].inbox)
     ELSE executeLocal(r, [Authorize(reqs[r]) EXCEPT !.origQuery = <<reqs[r].query>>,
                                                    !.query = ProjectionQuery,
                                                    !.executing = TRUE],
                       "dLocal")
  /\ UNCHANGED <<cache, callerCalls, reentry, backend>>

\* Delta set, after the local read.
DeltaLocalThen(r) ==
  /\ Awaiting(r, "dLocal")
  /\ reqs[r].inbox # Pending
  /\ LET req == reqs[r]
         o == IF req.inbox.state = "rejected" /\ req.inbox.error.name = "NotFoundError"
              THEN Resolved(Response(StatusCodeOk, Arr(<<>>)))
              ELSE req.inbox
     IN IF o.state = "rejected" THEN Reject(r, req, o)
        ELSE IF Truthy(o.value) /\ isSuccess(o.value)
        THEN executeNetwork(r, [req EXCEPT !.saved = <<o.value>>], "dNetwork")
        ELSE SuperExecute(r, req)
  /\ UNCHANGED <<cache, callerCalls, reentry, backend>>

\* The batch sub-requests of a delta set, in the order they are issued.
BatchRequests(r, req, localItems, networkItems) ==
  LET origQuery == req.origQuery[1]
      net == BatchesFrom(networkIds(localItems, networkItems), 0)
      loc == BatchesFrom(Keys(localItems), 0)
  IN [i \in 1..Len(net) |->
        execute(Request([method |-> req.method, pathname |-> req.pathname,
                         auth |-> req.auth, dataPolicy |-> PreferNetwork,
                         query |-> BatchQuery(origQuery, net[i])], r, "networkBatch"))]
     \o
     [i \in 1..Len(loc) |->
        execute(Request([method |-> req.method, pathname |-> req.pathname,
                         auth |-> req.auth, dataPolicy |-> ForceLocal,
                         query |-> BatchQuery(origQuery, loc[i])], r, "localBatch"))]

\* Delta set, after the network read: the delta is computed and every batch
\* sub-request is issued.
DeltaNetworkThen(r) ==
  /\ Awaiting(r, "dNetwork")
  /\ reqs[r].inbox # Pending
  /\ LET req == reqs[r]
         o == req.inbox
     IN IF o.state = "rejected" THEN Reject(r, req, o)
        ELSE IF Truthy(o.value) /\ isSuccess(o.value)
        THEN LET new == BatchRequests(r, req, AsArray(req.saved[1].data), AsArray(o.value.data))
             IN /\ reqs' = [reqs EXCEPT ![r] =
                              [req EXCEPT !.pc = "dBatches",
                                          !.batches = [i \in 1..Len(new) |-> Len(reqs) + i]]]
                            \o new
                /\ UNCHANGED calls
        ELSE SuperExecute(r, req)
  /\ UNCHANGED <<cache, callerCalls, reentry, backend>>

\* reduce(responses, ...): the data arrays concatenated.
RECURSIVE Concat(_)
Concat(responses) ==
  IF responses = <<>> THEN <<>>
  ELSE AsArray(Head(responses).data) \o Concat(Tail(responses))

\* Promise.all(promises).then(reduce).finally(reset): it resolves when every
\* batch has resolved and rejects as soon as one batch has rejected.
DeltaReduce(r) ==
  /\ Awaiting(r, "dBatches")
  /\ LET req == reqs[r]
         outcomes == [i \in DOMAIN req.batches |-> reqs[req.batches[i]].outcome]
         reset(o) == [req EXCEPT !.executing = FALSE, !.query = req.origQuery[1],
                                 !.pc = "done", !.outcome = o]
     IN \/ /\ \A i \in DOMAIN outcomes : outcomes[i].state = "resolved"
           /\ reqs' = [reqs EXCEPT ![r] =
                         reset(Resolved(Response(StatusCodeOk,
                                 Arr(Concat([i \in DOMAIN outcomes |-> outcomes[i].value])))))]
        \/ \E i \in DOMAIN outcomes :
             /\ outcomes[i].state = "rejected"
             /\ reqs' = [reqs EXCEPT ![r] = reset(outcomes[i])]
  /\ UNCHANGED <<calls, cache, callerCalls, reentry, backend>>

DeltaPolicies == {PreferNetwork, ForceNetwork}
DeltaMethods == {GET, POST}
DeltaQueries == {NullQuery, Q1}

InitDelta ==
  /\ \E method \in DeltaMethods, dataPolicy \in DeltaPolicies,
        auth \in AuthKinds, query \in DeltaQueries :
       reqs = <<TopRequest("DeltaSetRequest", method, dataPolicy, FALSE, auth, NullData, query)>>
  /\ calls = <<>>
  /\ InitStore
  /\ callerCalls = 0
  /\ reentry = Pending
  /\ backend = ServerBooks

NextDelta ==
  \/ CallExecute
  \/ \E r \in DOMAIN reqs : InvokeAuth(r)
  \/ \E r \in DOMAIN reqs : Dispatch(r)
  \/ \E r \in DOMAIN reqs : CacheRackSettle(r)
  \/ \E r \in DOMAIN reqs : NetworkRackSettle(r)
  \/ \E r \in DOMAIN reqs : ForceLocalThen(r)
  \/ \E r \in DOMAIN reqs : notifySyncRead(r)
  \/ \E r \in DOMAIN reqs : notifySyncWrite(r)
  \/ \E r \in DOMAIN reqs : ForceNetworkThen(r)
  \/ \E r \in DOMAIN reqs : PreferNetworkThen(r)
  \/ \E r \in DOMAIN reqs : MirrorThen(r)
  \/ \E r \in DOMAIN reqs : PreferNetworkFallback(r)
  \/ \E r \in DOMAIN reqs : DeltaAuthThen(r)
  \/ \E r \in DOMAIN reqs : DeltaLocalThen(r)
  \/ \E r \in DOMAIN reqs : DeltaNetworkThen(r)
  \/ \E r \in DOMAIN reqs : DeltaReduce(r)

SpecDelta == InitDelta /\ [][NextDelta]_vars


\* Both classes of request.
InitAll == Init \/ InitDelta
NextAll == Next \/ NextDelta
SpecAll == InitAll /\ [][NextAll]_vars

\* ------------------------------------------------------------------ the delta computation

\* The local collections and the backend's collections the delta set is
\* computed from: entities with and without _kmd, older, equal and newer lmt,
\* ids on one side only, and more than 2 * maxIdsPerRequest ids.
LocalItems ==
  {<<Entity("b1", <<1>>), Entity("b2", <<1>>)>>,
   <<Entity("b1", <<2>>), Entity("b2", <<>>), Entity("b3", <<>>), Entity("b4", <<1>>)>>,
   <<Entity("b1", <<1>>), Entity("b2", <<1>>), Entity("b3", <<1>>),
     Entity("b4", <<1>>), Entity("b5", <<1>>)>>}

NetworkItems ==
  {<<Entity("b1", <<2>>), Entity("b2", <<1>>), Entity("b3", <<1>>)>>,
   <<Entity("b1", <<1>>), Entity("b2", <<1>>), Entity("b3", <<>>)>>,
   <<Entity("b1", <<>>), Entity("b2", <<1>>)>>,
   <<Entity("b1", <<2>>), Entity("b2", <<2>>), Entity("b3", <<2>>),
     Entity("b4", <<2>>), Entity("b5", <<2>>)>>}

IsBatch(b) == reqs[b].role \in {"networkBatch", "localBatch"}

\* A batch sub-request runs to its end and returns exactly the entities of
\* the ids it asked for: the backend's for a network batch, the local store's
\* for a local batch.
BatchAnswered(b) ==
  /\ IsBatch(b)
  /\ Awaiting(b, "auth")
  /\ reqs[b].inbox = Pending
  /\ LET source == IF reqs[b].role = "networkBatch" THEN backend ELSE cache[reqs[b].pathname]
     IN reqs' = [reqs EXCEPT ![b] =
                   Settle(@, Resolved(Response(StatusCodeOK, Filter(source, reqs[b].query))))]
  /\ UNCHANGED <<calls, cache, callerCalls, reentry, backend>>

InitDeltaSet ==
  /\ \E query \in DeltaQueries :
       reqs = <<TopRequest("DeltaSetRequest", GET, PreferNetwork, FALSE, "null", NullData, query)>>
  /\ calls = <<>>
  /\ \E local \in {Absent} \cup {Arr(items) : items \in LocalItems} :
       cache = [path \in {BooksPath, SyncBooksPath} |->
                  IF path = BooksPath THEN local ELSE Absent]
  /\ callerCalls = 0
  /\ reentry = Pending
  /\ backend \in {Arr(items) : items \in NetworkItems}

\* The delta-set path of the caller's request, every batch sub-request
\* answered with the entities it asked for. (SpecDelta follows the batch
\* sub-requests' own executions and the fall-through to the base execute().)
NextDeltaSet ==
  \/ CallExecute
  \/ InvokeAuth(1)
  \/ DeltaAuthThen(1)
  \/ CacheRackSettle(1)
  \/ DeltaLocalThen(1)
  \/ NetworkRackSettle(1)
  \/ DeltaNetworkThen(1)
  \/ \E b \in DOMAIN reqs : BatchAnswered(b)
  \/ DeltaReduce(1)

SpecDeltaSet == InitDeltaSet /\ [][NextDeltaSet]_vars

\* ------------------------------------------------------------------ the data setter

\* request.data = data, on the caller's request.
AssignData ==
  /\ \E data \in TopData :
       reqs' = [reqs EXCEPT ![1].headers = setData(@, data), ![1].data = data]
  /\ UNCHANGED <<calls, cache, callerCalls, reentry, backend>>

NextData == AssignData

\* A constructed request whose data is assigned again and again.
SpecData == Init /\ [][NextData]_vars

\* ------------------------------------------------------------------ two writes to one collection

\* While its first request is in flight the caller saves another entity to
\* the same collection with a second ForceLocal request.
ConcurrentRequest ==
  /\ InFlightTop
  /\ \A i \in DOMAIN reqs : reqs[i].role # "concurrent"
  /\ reqs' = Append(reqs, execute(Request([method |-> reqs[1].method,
                                           pathname |-> reqs[1].pathname,
                                           auth |-> reqs[1].auth, data |-> Obj(E2),
                                           dataPolicy |-> ForceLocal], 0, "concurrent")))
  /\ UNCHANGED <<calls, cache, callerCalls, reentry, backend>>

InitSync ==
  /\ \E method \in {POST, PUT}, auth \in AuthKinds :
       reqs = <<TopRequest("Request", method, ForceLocal, FALSE, auth, Obj(E1), NullQuery)>>
  /\ calls = <<>>
  /\ cache \in [{BooksPath, SyncBooksPath} -> {Absent}]
  /\ callerCalls = 0
  /\ reentry = Pending
  /\ backend = ServerBooks

NextSync ==
  \/ CallExecute
  \/ ConcurrentRequest
  \/ \E r \in DOMAIN reqs : InvokeAuth(r)
  \/ \E r \in DOMAIN reqs : Dispatch(r)
  \/ \E r \in DOMAIN reqs : CacheRackSettle(r)
  \/ \E r \in DOMAIN reqs : ForceLocalThen(r)
  \/ \E r \in DOMAIN reqs : notifySyncRead(r)
  \/ \E r \in DOMAIN reqs : notifySyncWrite(r)

SpecSync == InitSync /\ [][NextSync]_vars


\* ------------------------------------------------------------------ claims

InFlight(r) == reqs[r].pc \notin {"new", "done"}
Settled(r) == reqs[r].pc = "done"

\* C1: a base Request's executing flag is true at every suspension point
\* between the entry of execute() and its settlement, and false once the
\* returned promise has settled, whether it resolved or rejected, under every
\* data policy and method.
C1_ExecutingFlag ==
  \A r \in DOMAIN reqs :
    reqs[r].cls = "Request" =>
      /\ InFlight(r) => reqs[r].executing /\ reqs[r].outcome = Pending
      /\ Settled(r) => ~reqs[r].executing /\ reqs[r].outcome # Pending

\* A PreferLocal request has settled with the rejection of a sub-request.
C1_Witness ==
  /\ reqs[1].dataPolicy = PreferLocal
  /\ Settled(1)
  /\ reqs[1].outcome.state = "rejected"
  /\ Len(reqs) > 1
  /\ ~reqs[1].executing

IsDeltaSet(r) ==
  reqs[r].cls = "DeltaSetRequest" /\ reqs[r].dataPolicy = PreferNetwork /\ reqs[r].method = GET

\* C2: once the promise of a delta-set execute() (DeltaSetRequest,
\* PreferNetwork, GET) has settled, on every exit path, the request's query is
\* the caller's original query and executing is false.
C2_QueryAndFlagRestored ==
  \A r \in DOMAIN reqs :
    IsDeltaSet(r) /\ Settled(r) =>
      reqs[r].query = reqs[r].options.query /\ ~reqs[r].executing

\* C3: a call of execute() on an instance whose previous execute() has not
\* settled rejects with the already-executing error and changes nothing: no
\* credentials are resolved, no rack is called, executing and the chain of the
\* first call stay as they are.
C3_Reentry ==
  [][(callerCalls' = callerCalls + 1 /\ InFlight(1)) =>
       /\ reentry' = Rejected(AlreadyExecutingError)
       /\ reqs' = reqs
       /\ calls' = calls
       /\ cache' = cache]_vars

\* A second call was rejected while the first was in flight, and the first
\* has resolved.
C3_Witness ==
  /\ reentry = Rejected(AlreadyExecutingError)
  /\ callerCalls = 2
  /\ Settled(1)
  /\ reqs[1].outcome.state = "resolved"


\* Request c was created, directly or through sub-requests, by request r.
RECURSIVE Under(_, _)
Under(c, r) ==
  \/ c = r
  \/ reqs[c].parent # 0 /\ Under(reqs[c].parent, r)

Tree(r) == {c \in DOMAIN reqs : Under(c, r)}

\* How many calls the requests of S have made to a rack.
CallsBy(S, rack) ==
  Cardinality({i \in DOMAIN calls : calls[i].req \in S /\ calls[i].rack = rack})

Children(r, role) == {c \in DOMAIN reqs : reqs[c].parent = r /\ reqs[c].role = role}

\* The credentials of request r were refused.
AuthFailed(r) == reqs[r].inbox = Rejected(AuthError)

\* No credentials were refused to request r or to a request made for it.
Authorized(r) == \A c \in Tree(r) : ~AuthFailed(c)

\* The local response of a ForceLocal request is one notifySync is run for.
Recordable(r) ==
  /\ reqs[r].inbox.state = "resolved"
  /\ Truthy(reqs[r].inbox.value)
  /\ isSuccess(reqs[r].inbox.value)
  /\ reqs[r].method # GET
  /\ ~reqs[r].skipSync

\* What C4 says of a settled ForceLocal request besides the number of cache
\* calls: no network call, and notifySync (the read of the sync document, and
\* with it the write) is run if and only if the local response is successful,
\* the method is not GET and skipSync is false.
ForceLocalSync(r) ==
  /\ CallsBy(Tree(r), "network") = 0
  /\ Children(r, "getRequest") # {} <=> Recordable(r)
  /\ Children(r, "updateRequest") # {} => Recordable(r)

\* C4 as stated: every settled ForceLocal execute() has made exactly one
\* cache-rack call and no network-rack call, and has run notifySync if and
\* only if the local response is successful, the method is not GET and
\* skipSync is false.
C4_Original ==
  \A r \in DOMAIN reqs :
    reqs[r].dataPolicy = ForceLocal /\ Settled(r) =>
      CallsBy(Tree(r), "cache") = 1 /\ ForceLocalSync(r)

\* C4, amended: a settled ForceLocal execute() whose credentials were
\* resolved has made exactly one cache-rack call (none when the credentials
\* were refused) and no network-rack call, and has run notifySync if and only
\* if the local response is successful, the method is not GET and skipSync is
\* false.
C4_ForceLocal ==
  \A r \in DOMAIN reqs :
    reqs[r].dataPolicy = ForceLocal /\ Settled(r) =>
      /\ CallsBy(Tree(r), "cache") = IF AuthFailed(r) THEN 0 ELSE 1
      /\ ForceLocalSync(r)

\* A ForceLocal GET was answered 2xx by the cache and settled without a read
\* of the sync document.
C4_Witness ==
  /\ reqs[1].dataPolicy = ForceLocal
  /\ reqs[1].method = GET
  /\ ~reqs[1].skipSync
  /\ Settled(1)
  /\ reqs[1].inbox.state = "resolved"
  /\ Truthy(reqs[1].inbox.value)
  /\ isSuccess(reqs[1].inbox.value)
  /\ CallsBy(Tree(1), "cache") = 1
  /\ Children(1, "getRequest") = {}

\* The entities with a truthy _id in a body.
Identified(data) ==
  IF data.kind \in {"array", "object"}
  THEN {item \in Range(AsArray(data)) : item._id # ""}
  ELSE {}

\* The local store holds a sync document for the collection with an entry
\* for every identified entity of data, made from request r.
SyncDocumentRecords(r, data) ==
  /\ cache[SyncBooksPath].kind = "sync"
  /\ \A item \in Identified(data) :
       /\ item._id \in DOMAIN cache[SyncBooksPath].documents
       /\ cache[SyncBooksPath].documents[item._id] =
            [request |-> toJSON(reqs[r]), lmt |-> item.lmt]

\* C5: a ForceLocal request, not GET, skipSync false, whose cache-rack
\* response is 2xx with an entity of truthy _id, resolves with that local
\* response, and the sync document in the local store then holds
\* documents[_id] = {request: the serialized request, lmt: the entity's lmt
\* or null} (no credentials being refused on the way).
C5_SyncRecorded ==
  \A r \in DOMAIN reqs :
    /\ reqs[r].dataPolicy = ForceLocal
    /\ Settled(r)
    /\ Authorized(r)
    /\ Recordable(r)
    /\ Identified(reqs[r].inbox.value.data) # {}
    => /\ reqs[r].outcome = Resolved(reqs[r].inbox.value)
       /\ SyncDocumentRecords(r, reqs[r].inbox.value.data)

FirstCall(S) ==
  LET made == {i \in DOMAIN calls : calls[i].req \in S}
  IN IF made = {} THEN 0 ELSE CHOOSE i \in made : \A j \in made : i <= j

\* The rack answered the call of request r with a 2xx response.
NetworkSucceeded(r) ==
  /\ reqs[r].inbox.state = "resolved"
  /\ Truthy(reqs[r].inbox.value)
  /\ isSuccess(reqs[r].inbox.value)

\* C7: the ForceLocal mirror of a PreferNetwork request (PUT for a GET, else
\* the same method, data = the network response's data) is started only when
\* the successful network response is there, after the network call, and the
\* request does not settle before the mirror and the requests of its sync
\* notification have settled.
C7_MirrorOrder ==
  \A r \in DOMAIN reqs :
    reqs[r].dataPolicy = PreferNetwork =>
      /\ \A m \in Children(r, "mirror") :
           /\ NetworkSucceeded(r)
           /\ reqs[r].saved = <<reqs[r].inbox.value>>
           /\ reqs[m].dataPolicy = ForceLocal
           /\ reqs[m].method = IF reqs[r].method = GET THEN PUT ELSE reqs[r].method
           /\ reqs[m].data = reqs[r].inbox.value.data
           /\ \A i \in DOMAIN calls : calls[i].req \in Tree(m) => i > FirstCall({r})
      /\ Settled(r) /\ NetworkSucceeded(r) =>
           /\ Children(r, "mirror") # {}
           /\ \A m \in Children(r, "mirror") : \A c \in Tree(m) : Settled(c)

\* A PreferNetwork GET has settled after its mirror wrote the network data to
\* the cache and the mirror's sync notification has run to its end.
C7_Witness ==
  /\ reqs[1].dataPolicy = PreferNetwork
  /\ reqs[1].method = GET
  /\ Settled(1)
  /\ NetworkSucceeded(1)
  /\ \E m \in Children(1, "mirror") :
       /\ reqs[m].method = PUT
       /\ CallsBy({m}, "cache") = 1
       /\ \E u \in Children(m, "updateRequest") : Settled(u)

\* C8: a PreferNetwork request whose network response is 2xx resolves with
\* exactly that response, whatever the mirror sub-request does; stated for
\* the mirrors whose credentials were resolved and whose cache call was
\* answered 2xx.
C8_NetworkResponseReturned ==
  \A r \in DOMAIN reqs :
    /\ reqs[r].dataPolicy = PreferNetwork
    /\ Settled(r)
    /\ NetworkSucceeded(r)
    /\ Authorized(r)
    /\ \A m \in Children(r, "mirror") : NetworkSucceeded(m)
    => reqs[r].outcome = Resolved(reqs[r].inbox.value)

C10_PreferLocalGet ==
  \A r \in DOMAIN reqs :
    reqs[r].dataPolicy = PreferLocal /\ reqs[r].method = GET =>
      LET in == reqs[r].inbox
          escalations == Children(r, "escalation")
          local == IF in.state = "rejected" /\ in.error.name = "NotFoundError"
                   THEN Resolved(Response(StatusCodeNotFound, Arr(<<>>)))
                   ELSE in
          failed == local.state = "resolved" /\ Truthy(local.value) /\ ~isSuccess(local.value)
          past == reqs[r].pc \in {"escalate", "done"} /\ ~AuthFailed(r)
      IN /\ FirstCall(Tree(r)) # 0 =>
              calls[FirstCall(Tree(r))].rack = "cache" /\ calls[FirstCall(Tree(r))].req = r
         /\ CallsBy({r}, "network") = 0
         /\ past /\ ~failed =>
              /\ Settled(r)
              /\ reqs[r].outcome = FinalValidation(local)
              /\ Tree(r) = {r}
              /\ CallsBy(Tree(r), "network") = 0
         /\ past /\ failed =>
              /\ Cardinality(escalations) = 1
              /\ \A e \in escalations :
                   /\ reqs[e].dataPolicy = PreferNetwork
                   /\ reqs[e].method = GET
                   /\ reqs[e].pathname = reqs[r].pathname
                   /\ reqs[e].query = reqs[r].query
                   /\ reqs[e].auth = reqs[r].auth
                   /\ reqs[e].data = local.value.data
                   /\ Settled(r) => Settled(e) /\ reqs[r].outcome = reqs[e].outcome
                   /\ Settled(r) /\ NetworkSucceeded(e) =>
                        /\ Children(e, "mirror") # {}
                        /\ \A m \in Children(e, "mirror") :
                             /\ Settled(m)
                             /\ NetworkSucceeded(m) =>
                                  cache[reqs[r].pathname] = reqs[e].inbox.value.data
         /\ ~past => escalations = {}

\* A PreferLocal GET missed the cache (NotFound), escalated with an empty
\* array, the network answered 2xx, the mirror's write was served, and the
\* request has settled with the escalation's outcome.
C10_Witness ==
  /\ reqs[1].dataPolicy = PreferLocal
  /\ reqs[1].method = GET
  /\ Settled(1)
  /\ reqs[1].inbox = Rejected(NotFoundError("not found"))
  /\ \E e \in Children(1, "escalation") :
       /\ reqs[e].data = Arr(<<>>)
       /\ NetworkSucceeded(e)
       /\ reqs[1].outcome = reqs[e].outcome
       /\ \E m \in Children(e, "mirror") :
            /\ NetworkSucceeded(m)
            /\ cache[BooksPath] = reqs[e].inbox.value.data

\* C11: for a PreferLocal request that is not a GET, the ForceLocal fallback
\* exists only once the PreferNetwork sub-request has settled with a
\* rejection, and once the request has settled after a sub-request that
\* failed with error E, the fallback has been executed and the request has
\* rejected with that same E, whatever the fallback's outcome.
C11_PreferLocalRethrow ==
  \A r \in DOMAIN reqs :
    reqs[r].dataPolicy = PreferLocal /\ reqs[r].method # GET =>
      \A n \in Children(r, "network") :
        /\ Children(r, "request2") # {} =>
             Settled(n) /\ reqs[n].outcome.state = "rejected"
        /\ Settled(r) /\ reqs[n].outcome.state = "rejected" =>
             /\ Children(r, "request2") # {}
             /\ \A f \in Children(r, "request2") : Settled(f)
             /\ reqs[r].outcome = reqs[n].outcome

\* C12: the final validation of a base Request is total and typed. A settled
\* execute() has resolved only with the 2xx response the dispatcher produced,
\* stored in this.response; with no response from the dispatcher it has
\* rejected with KinveyError('No response'); with a non-2xx response it has
\* rejected with BlobNotFoundError for an envelope named BlobNotFound,
\* NotFoundError for one named EntityNotFound and KinveyError otherwise (a
\* null body included); and this.response is null after any rejection.
C12_StepC ==
  \A r \in DOMAIN reqs :
    reqs[r].cls = "Request" /\ Settled(r) /\ reqs[r].dispatched # Pending =>
      LET d == reqs[r].dispatched
          out == reqs[r].outcome
      IN /\ out.state \in {"resolved", "rejected"}
         /\ out.state = "resolved" =>
              /\ Truthy(out.value) /\ isSuccess(out.value)
              /\ out = d
              /\ reqs[r].response = <<out.value>>
         /\ out.state = "rejected" => reqs[r].response = <<>>
         /\ d.state = "rejected" => out = d
         /\ d.state = "resolved" /\ ~Truthy(d.value) =>
              out = Rejected(KinveyError("No response"))
         /\ d.state = "resolved" /\ Truthy(d.value) /\ isSuccess(d.value) => out = d
         /\ d.state = "resolved" /\ Truthy(d.value) /\ ~isSuccess(d.value) =>
              /\ out.state = "rejected"
              /\ out.error.name =
                   IF d.value.data = Envelope("BlobNotFound") THEN "BlobNotFoundError"
                   ELSE IF d.value.data = Envelope("EntityNotFound") THEN "NotFoundError"
                   ELSE "KinveyError"

\* A ForceNetwork request was answered 404 with a BlobNotFound envelope and
\* has rejected with a BlobNotFoundError, this.response being null.
C12_Witness ==
  /\ reqs[1].dataPolicy = ForceNetwork
  /\ Settled(1)
  /\ reqs[1].dispatched = Resolved(Response(StatusCodeNotFound, Envelope("BlobNotFound")))
  /\ reqs[1].outcome.state = "rejected"
  /\ reqs[1].outcome.error.name = "BlobNotFoundError"
  /\ reqs[1].response = <<>>


\* The delta set of request r has been computed and its batches issued.
Computed(r) == IsDeltaSet(r) /\ reqs[r].batches # <<>>

\* The local and the network projection the delta set was computed from.
LocalProjection(r) == AsArray(reqs[r].saved[1].data)
NetworkProjection(r) == AsArray(reqs[r].inbox.value.data)

IdsOf(items) == {items[i]._id : i \in DOMAIN items}
Doc(items, id) == CHOOSE item \in Range(items) : item._id = id

\* The _id lists of the batch sub-requests of one kind, in the order issued.
BatchIds(r, role) ==
  LET bs == SelectSeq(reqs[r].batches, LAMBDA b : reqs[b].role = role)
  IN [i \in DOMAIN bs |-> reqs[bs[i]].query.ids[1]]

\* The ids asked from the network through the PreferNetwork sub-requests.
Fetched(r) ==
  UNION {Range(BatchIds(r, "networkBatch")[i]) : i \in DOMAIN BatchIds(r, "networkBatch")}

\* C13: when the projected local and network reads both succeeded and every
\* batch sub-request returned exactly the entities of the ids it asked for,
\* the _ids of the combined response data are the local ids together with
\* the network ids, and each id appears exactly once in the data array.
C13_DeltaUnion ==
  \A r \in DOMAIN reqs :
    Computed(r) /\ Settled(r) /\ reqs[r].outcome.state = "resolved" =>
      LET data == reqs[r].outcome.value.data.items
          ids == [i \in DOMAIN data |-> data[i]._id]
      IN /\ Range(ids) = IdsOf(LocalProjection(r)) \cup IdsOf(NetworkProjection(r))
         /\ Cardinality(Range(ids)) = Len(ids)

\* C14: a network id that is absent from the local projection, or whose
\* local and network documents both carry _kmd, is asked from the network
\* through a PreferNetwork sub-request if and only if it is absent locally or
\* the network lmt is greater than the local lmt (equal or older: not
\* fetched); an id present only locally is never asked from the network.
C14_DeltaMembership ==
  \A r \in DOMAIN reqs :
    Computed(r) =>
      LET L == LocalProjection(r)
          N == NetworkProjection(r)
      IN /\ \A id \in IdsOf(N) :
              (id \notin IdsOf(L) \/ (Doc(N, id).lmt # <<>> /\ Doc(L, id).lmt # <<>>)) =>
                (id \in Fetched(r) <=>
                   (id \notin IdsOf(L) \/ Doc(N, id).lmt[1] > Doc(L, id).lmt[1]))
         /\ \A id \in IdsOf(L) \ IdsOf(N) : id \notin Fetched(r)

\* The batches partition the id list: ceil(N/M) of them, each with at least
\* one and at most M ids, every id of the list in exactly one batch.
Partitioned(ids, batches) ==
  /\ Len(batches) = (Len(ids) + maxIdsPerRequest - 1) \div maxIdsPerRequest
  /\ \A i \in DOMAIN batches :
       /\ Len(batches[i]) >= 1
       /\ Len(batches[i]) <= maxIdsPerRequest
       /\ Range(batches[i]) \subseteq Range(ids)
  /\ \A id \in Range(ids) :
       Cardinality({i \in DOMAIN batches : id \in Range(batches[i])}) = 1

\* C15: the N ids of the delta set, and the N local ids, are each batched
\* into exactly ceil(N/M) sub-requests, M = maxIdsPerRequest, whose _id
\* filters hold at most M ids, are never empty and partition the id list,
\* for every N, N > 2 * M included.
C15_Batching ==
  \A r \in DOMAIN reqs :
    Computed(r) =>
      /\ Partitioned(networkIds(LocalProjection(r), NetworkProjection(r)),
                     BatchIds(r, "networkBatch"))
      /\ Partitioned(Keys(LocalProjection(r)), BatchIds(r, "localBatch"))


\* C20: for an id present in both projections, when exactly one of the two
\* documents lacks _kmd the id is treated as changed (it is asked from the
\* network), and when both lack _kmd it is treated as unchanged (not asked).
C20_MissingKmd ==
  \A r \in DOMAIN reqs :
    Computed(r) =>
      LET L == LocalProjection(r)
          N == NetworkProjection(r)
      IN \A id \in IdsOf(L) \cap IdsOf(N) :
           LET localLacks == Doc(L, id).lmt = <<>>
               networkLacks == Doc(N, id).lmt = <<>>
           IN /\ localLacks # networkLacks => id \in Fetched(r)
              /\ localLacks /\ networkLacks => id \notin Fetched(r)


\* C16: for a request constructed without an explicit Content-Type header,
\* after any sequence of assignments to data, getHeader('Content-Type') is set
\* if and only if the current data is not null.
C16_ContentType ==
  \A r \in DOMAIN reqs :
    getHeader(reqs[r].headers, "Content-Type") # <<>> <=> reqs[r].data # NullData


\* The one request of the given role that request r made, 0 if none.
ChildOf(r, role) ==
  IF Children(r, role) = {} THEN 0 ELSE CHOOSE c \in Children(r, role) : TRUE

\* The sync notifications of requests a and b interleaved: both had begun to
\* read the sync document before either began to write it.
Interleaved(a, b) ==
  /\ ChildOf(a, "getRequest") # 0 /\ ChildOf(b, "getRequest") # 0
  /\ ChildOf(a, "updateRequest") # 0 /\ ChildOf(b, "updateRequest") # 0
  /\ ChildOf(a, "getRequest") < ChildOf(b, "updateRequest")
  /\ ChildOf(b, "getRequest") < ChildOf(a, "updateRequest")

\* C17: when the sync notifications of two requests on one collection, each
\* recording a different new _id, interleave (both read the sync document
\* before either writes it), then once both requests have settled (no
\* credentials being refused) the persisted sync document has a documents
\* entry for both _ids.
C17_InterleavedSync ==
  \A a, b \in DOMAIN reqs :
    /\ reqs[a].role = "top" /\ reqs[b].role = "concurrent"
    /\ Settled(a) /\ Settled(b)
    /\ Authorized(a) /\ Authorized(b)
    /\ Interleaved(a, b)
    => /\ cache[SyncBooksPath].kind = "sync"
       /\ \A item \in Identified(reqs[a].inbox.value.data) \cup Identified(reqs[b].inbox.value.data) :
            item._id \in DOMAIN cache[SyncBooksPath].documents


\* C18: in a delta-set execution every batch sub-request is issued before a
\* request is made for any of them, the promise of execute() settles only
\* after every batch sub-request has settled, and when a batch has rejected
\* the settled execute() has rejected.
C18_BatchesAwaited ==
  \A r \in DOMAIN reqs :
    Computed(r) =>
      /\ \A a, b \in Range(reqs[r].batches) : \A c \in Tree(a) \ {a} : c > b
      /\ Settled(r) => \A b \in Range(reqs[r].batches) : Settled(b)
      /\ Settled(r) /\ (\E b \in Range(reqs[r].batches) : reqs[b].outcome.state = "rejected")
           => reqs[r].outcome.state = "rejected"

\* C19: a closure-valued auth is invoked exactly once for an instance by one
\* call of execute() (never more, and once when the call has settled), and
\* before any rack call of that instance, for Request and DeltaSetRequest,
\* under every policy and on every path.
C19_AuthOnce ==
  \A r \in DOMAIN reqs :
    reqs[r].auth = "closure" =>
      /\ reqs[r].authCalls <= 1
      /\ Settled(r) => reqs[r].authCalls = 1
      /\ CallsBy({r}, "cache") + CallsBy({r}, "network") > 0 => reqs[r].authCalls >= 1


\* C21: in notifySync only a not-found outcome of the read of the sync
\* document is replaced by the empty document: after any other error of the
\* read no write of the sync document is made and the enclosing ForceLocal
\* execute() rejects; an error of the write makes it reject; and neither the
\* read nor the write is made a second time.
C21_SyncErrors ==
  \A r \in DOMAIN reqs :
    reqs[r].dataPolicy = ForceLocal =>
      /\ Cardinality(Children(r, "getRequest")) <= 1
      /\ Cardinality(Children(r, "updateRequest")) <= 1
      /\ \A g \in Children(r, "getRequest") :
           /\ Settled(g)
           /\ reqs[g].outcome.state = "rejected"
           /\ reqs[g].outcome.error.name # "NotFoundError"
           => /\ Children(r, "updateRequest") = {}
              /\ Settled(r) => reqs[r].outcome.state = "rejected"
      /\ \A u \in Children(r, "updateRequest") :
           Settled(r) /\ reqs[u].outcome.state = "rejected" =>
             reqs[r].outcome.state = "rejected"


\* C23: the ForceLocal mirror of a successful PreferNetwork request has
\* skipSync false and a method that is not GET, whatever the skipSync of the
\* original request; so once it has settled after a successful cache-rack
\* response (no credentials being refused) it has run notifySync on the
\* network data, and every entity with a truthy _id in the network response
\* has an entry in the collection's sync document.
C23_MirrorSync ==
  \A r \in DOMAIN reqs :
    reqs[r].dataPolicy = PreferNetwork =>
      \A m \in Children(r, "mirror") :
        /\ ~reqs[m].skipSync
        /\ reqs[m].method # GET
        /\ Settled(m) /\ NetworkSucceeded(m) /\ Authorized(m) =>
             /\ Children(m, "getRequest") # {}
             /\ Identified(reqs[r].inbox.value.data) # {} =>
                  /\ cache[SyncBooksPath].kind = "sync"
                  /\ \A item \in Identified(reqs[r].inbox.value.data) :
                       item._id \in DOMAIN cache[SyncBooksPath].documents


\* How many requests stand between request r and a request of the caller.
RECURSIVE Depth(_)
Depth(r) == IF reqs[r].parent = 0 THEN 0 ELSE 1 + Depth(reqs[r].parent)

\* Every request has a sub-request chain of depth at most three above it
\* (PreferLocal, PreferNetwork, ForceLocal, LocalOnly), and the write of the
\* sync document has skipSync true and makes no request of its own.
ChainBounded ==
  \A r \in DOMAIN reqs :
    /\ Depth(r) <= 3
    /\ reqs[r].role = "updateRequest" => reqs[r].skipSync /\ Tree(r) = {r}

\* C22: every auth closure and rack call settling, every execute() of a base
\* Request that is in flight eventually has settled, with every request made
\* for it, under every policy and method; the chain of sub-requests has
\* bounded depth, and the write of the sync document never starts a further
\* notifySync.
C22_Termination ==
  /\ []ChainBounded
  /\ (\E r \in DOMAIN reqs : InFlight(r)) ~> (\A r \in DOMAIN reqs : Settled(r))

\* A PreferLocal request that is not a GET has settled after its
\* PreferNetwork sub-request, the mirror of that and the write of the sync
\* document, three requests deep.
C22_Witness ==
  /\ reqs[1].dataPolicy = PreferLocal
  /\ reqs[1].method # GET
  /\ Settled(1)
  /\ \E u \in DOMAIN reqs :
       reqs[u].role = "updateRequest" /\ Depth(u) = 3 /\ Settled(u)

====
